---- MODULE Spec2Model ----
(***************************************************************************)
(* Guitar chord analysis: the pitch helpers, the fretboard helpers, the    *)
(* voicing helpers and the chord catalog of main.py.                       *)
(*                                                                         *)
(* Python values are modelled as tagged records.  A str is a sequence of   *)
(* one-character strings, so that slicing (note[:-1], note[:i]), str() of  *)
(* an integer and int() of a text are computed character by character.     *)
(* A raised exception is the value [tag |-> "raise", exc |-> ...].         *)
(***************************************************************************)
EXTENDS Integers, Sequences, FiniteSets, TLC

VARIABLES op, args, result, chord_database

vars == <<op, args, result, chord_database>>

(* ------------------------------ bounds -------------------------------- *)

\* longest free text handed to parse_note / note_to_semitone
MaxTextLen == 3
\* highest octave of a well-formed note handed to the helpers
MaxOctave == 10
\* highest semitone handed to semitone_to_note
MaxSemitone == 131
\* integer frets of a generated voicing: 0..MaxVoicingFret, and MAX_FRET
MaxVoicingFret == 2
\* largest target pitch-class set handed to get_fret_positions
MaxTargetSize == 2

(* --------------------------- Python values ---------------------------- *)

PyInt(n) == [tag |-> "int", n |-> n]
PyStr(s) == [tag |-> "str", s |-> s]
PyNone == [tag |-> "None"]
PyTuple(name, octave) == [tag |-> "tuple", name |-> name, octave |-> octave]
PyList(l) == [tag |-> "list", l |-> l]
ValueError == [tag |-> "raise", exc |-> "ValueError"]

IsRaise(v) == v.tag = "raise"

\* Python's ==: values of different types are unequal, never an error
PyEq(a, b) == a.tag = b.tag /\ a = b

Digits == <<"0", "1", "2", "3", "4", "5", "6", "7", "8", "9">>

\* str.isdigit on one character
isdigit(ch) == \E d \in 1..Len(Digits) : Digits[d] = ch

DigitValue(ch) == (CHOOSE d \in 1..Len(Digits) : Digits[d] = ch) - 1

\* code points of the characters that occur, as Python orders str values
CharCode(ch) ==
    CASE ch = "#" -> 35
      [] ch = "-" -> 45
      [] isdigit(ch) -> 48 + DigitValue(ch)
      [] ch = "A" -> 65
      [] ch = "B" -> 66
      [] ch = "C" -> 67
      [] ch = "D" -> 68
      [] ch = "E" -> 69
      [] ch = "F" -> 70
      [] ch = "G" -> 71
      [] ch = "H" -> 72
      [] ch = "X" -> 88
      [] ch = "x" -> 120

RECURSIVE StrLess(_, _)
\* Python's < on str: lexicographic by code point, a proper prefix is smaller
StrLess(a, b) ==
    IF a = <<>> THEN b # <<>>
    ELSE IF b = <<>> THEN FALSE
    ELSE IF CharCode(Head(a)) # CharCode(Head(b))
         THEN CharCode(Head(a)) < CharCode(Head(b))
         ELSE StrLess(Tail(a), Tail(b))

RECURSIVE sorted(_)
\* sorted(set(...)) of str values: ascending by StrLess
sorted(S) ==
    IF S = {} THEN <<>>
    ELSE LET m == CHOOSE x \in S : \A y \in S \ {x} : StrLess(x, y)
         IN  <<m>> \o sorted(S \ {m})

RECURSIVE str(_)
\* str(n) of an int, as the f-string formats it: decimal, '-' for negatives
str(n) ==
    IF n < 0 THEN <<"-">> \o str(-n)
    ELSE IF n < 10 THEN <<Digits[n + 1]>>
    ELSE str(n \div 10) \o <<Digits[(n % 10) + 1]>>

RECURSIVE DecimalValue(_)
DecimalValue(s) ==
    IF s = <<>> THEN 0
    ELSE 10 * DecimalValue(SubSeq(s, 1, Len(s) - 1)) + DigitValue(s[Len(s)])

AllDigits(s) == s # <<>> /\ \A i \in 1..Len(s) : isdigit(s[i])

\* int(s) of a str over the characters above: an optional sign and decimal
\* digits, ValueError otherwise
IntOfStr(s) ==
    IF AllDigits(s) THEN PyInt(DecimalValue(s))
    ELSE IF s # <<>> /\ s[1] = "-" /\ AllDigits(Tail(s))
         THEN PyInt(-DecimalValue(Tail(s)))
    ELSE ValueError

\* int(v): an int is itself, a str is parsed
int(v) == IF v.tag = "int" THEN v ELSE IntOfStr(v.s)

\* s[:-1]
DropLast(s) == SubSeq(s, 1, Len(s) - 1)

\* iterating a str yields its characters as one-character str values
StrIter(s) == [i \in 1..Len(s) |-> PyStr(<<s[i]>>)]

(* ----------------------------- constants ------------------------------ *)

STRINGS == << <<"E", "2">>, <<"A", "2">>, <<"D", "3">>,
              <<"G", "3">>, <<"B", "3">>, <<"E", "4">> >>

NOTE_ORDER == << <<"C">>, <<"C", "#">>, <<"D">>, <<"D", "#">>, <<"E">>, <<"F">>,
                 <<"F", "#">>, <<"G">>, <<"G", "#">>, <<"A">>, <<"A", "#">>, <<"B">> >>

MAX_FRET == 12

PitchClasses == {NOTE_ORDER[i] : i \in 1..Len(NOTE_ORDER)}

\* NOTE_ORDER.index(name), zero-based; the caller checks membership
IndexOf(name) == (CHOOSE i \in 1..Len(NOTE_ORDER) : NOTE_ORDER[i] = name) - 1

(* --------------------- helpers: pitch, notes, strings ----------------- *)

RECURSIVE FirstDigit(_, _)
\* the first position i (1-based) from `from` on with note[i] a digit, 0 if none
FirstDigit(note, from) ==
    IF from > Len(note) THEN 0
    ELSE IF isdigit(note[from]) THEN from
    ELSE FirstDigit(note, from + 1)

\* a plausible slip: only the first digit is read as the octave
parse_note_one_digit(note) ==
    LET i == FirstDigit(note, 1)
    IN  IF i = 0 THEN ValueError
        ELSE PyTuple(SubSeq(note, 1, i - 1), DigitValue(note[i]))

\* a plausible slip: a missing octave defaults to 0 instead of raising
parse_note_default_octave(note) ==
    LET i == FirstDigit(note, 1)
    IN  IF i = 0 THEN PyTuple(note, 0)
        ELSE LET octave == IntOfStr(SubSeq(note, i, Len(note)))
             IN  IF IsRaise(octave) THEN octave
                 ELSE PyTuple(SubSeq(note, 1, i - 1), octave.n)

parse_note(note) ==
    LET i == FirstDigit(note, 1)
    IN  IF i = 0 THEN ValueError
        ELSE LET octave == IntOfStr(SubSeq(note, i, Len(note)))
             IN  IF IsRaise(octave) THEN octave
                 ELSE PyTuple(SubSeq(note, 1, i - 1), octave.n)

\* a plausible slip: a one-based index of the pitch-class
note_to_semitone_one_based(note) ==
    LET p == parse_note(note)
    IN  IF IsRaise(p) THEN p
        ELSE IF p.name \notin PitchClasses THEN ValueError
        ELSE PyInt(IndexOf(p.name) + 1 + 12 * p.octave)

note_to_semitone(note) ==
    LET p == parse_note(note)
    IN  IF IsRaise(p) THEN p
        ELSE IF p.name \notin PitchClasses THEN ValueError
        ELSE PyInt(IndexOf(p.name) + 12 * p.octave)

semitone_to_note(semitone) ==
    NOTE_ORDER[(semitone % 12) + 1] \o str(semitone \div 12)

get_note_from_string_fret(base_note, fret) ==
    IF PyEq(fret, PyStr(<<"X">>)) THEN PyNone
    ELSE LET base == note_to_semitone(base_note)
             f == int(fret)
         IN  IF IsRaise(base) THEN base
             ELSE IF IsRaise(f) THEN f
             ELSE PyStr(semitone_to_note(base.n + f.n))

(* ------------------------- voicing helpers ---------------------------- *)

\* zip(STRINGS, voicing) stops at the shorter of the two
ZipLen(voicing) == IF Len(voicing) < Len(STRINGS) THEN Len(voicing) ELSE Len(STRINGS)

RECURSIVE CollectNotes(_, _, _)
\* the loop of get_chord_notes_from_voicing from string i on: the list `notes`
\* so far, or the exception a string raises
CollectNotes(voicing, i, notes) ==
    IF i > ZipLen(voicing) THEN PyList(notes)
    ELSE LET note == get_note_from_string_fret(STRINGS[i], voicing[i])
         IN  IF IsRaise(note) THEN note
             ELSE IF note.tag = "str"
                  THEN CollectNotes(voicing, i + 1, Append(notes, DropLast(note.s)))
                  ELSE CollectNotes(voicing, i + 1, notes)

Range(l) == {l[i] : i \in 1..Len(l)}

\* a plausible slip: the notes in NOTE_ORDER order instead of sorted()
get_chord_notes_in_note_order(voicing) ==
    LET got == CollectNotes(voicing, 1, <<>>)
        F[i \in 0..Len(NOTE_ORDER)] ==
            IF i = 0 THEN <<>>
            ELSE IF NOTE_ORDER[i] \in Range(got.l)
                 THEN Append(F[i - 1], NOTE_ORDER[i]) ELSE F[i - 1]
    IN  IF IsRaise(got) THEN got ELSE PyList(F[Len(NOTE_ORDER)])

get_chord_notes_from_voicing(voicing) ==
    LET got == CollectNotes(voicing, 1, <<>>)
    IN  IF IsRaise(got) THEN got ELSE PyList(sorted(Range(got.l)))

RECURSIVE FirstOpen(_, _)
\* first loop of determine_root_note: the first string i with fret == 0, 0 if none
FirstOpen(voicing, i) ==
    IF i > ZipLen(voicing) THEN 0
    ELSE IF PyEq(voicing[i], PyInt(0)) THEN i
    ELSE FirstOpen(voicing, i + 1)

RECURSIVE FirstUnmuted(_, _)
\* second loop of determine_root_note: the first string i with fret != 'X'
FirstUnmuted(voicing, i) ==
    IF i > ZipLen(voicing) THEN 0
    ELSE IF ~PyEq(voicing[i], PyStr(<<"X">>)) THEN i
    ELSE FirstUnmuted(voicing, i + 1)

\* `note[:-1] if note else None`, an exception passing through
RootOf(note) ==
    IF IsRaise(note) THEN note
    ELSE IF note.tag = "str" THEN PyStr(DropLast(note.s))
    ELSE PyNone

\* a plausible slip: no preference for an open string
determine_root_note_no_open(voicing) ==
    LET i == FirstUnmuted(voicing, 1)
    IN  IF i # 0 THEN RootOf(get_note_from_string_fret(STRINGS[i], voicing[i]))
        ELSE PyNone

\* a plausible slip: the root is named after the string, not the sounding note
determine_root_note_open_name(voicing) ==
    LET open == FirstOpen(voicing, 1)
        i == FirstUnmuted(voicing, 1)
    IN  IF open # 0 THEN PyStr(DropLast(STRINGS[open]))
        ELSE IF i # 0 THEN PyStr(DropLast(STRINGS[i]))
        ELSE PyNone

determine_root_note(voicing) ==
    LET open == FirstOpen(voicing, 1)
        i == FirstUnmuted(voicing, 1)
    IN  IF open # 0
        THEN RootOf(get_note_from_string_fret(STRINGS[open], voicing[open]))
        ELSE IF i # 0
        THEN RootOf(get_note_from_string_fret(STRINGS[i], voicing[i]))
        ELSE PyNone

RECURSIVE ScanFrets(_, _, _, _)
\* the loop of get_fret_positions from `fret` on
ScanFrets(base_semitone, target_notes, fret, positions) ==
    IF fret > MAX_FRET THEN positions
    ELSE LET note == semitone_to_note(base_semitone + fret)
         IN  IF DropLast(note) \in target_notes
             THEN ScanFrets(base_semitone, target_notes, fret + 1,
                            Append(positions, PyInt(fret)))
             ELSE ScanFrets(base_semitone, target_notes, fret + 1, positions)

get_fret_positions(string_note, target_notes) ==
    LET base == note_to_semitone(string_note)
    IN  IF IsRaise(base) THEN base
        ELSE PyList(Append(ScanFrets(base.n, target_notes, 0, <<>>), PyStr(<<"X">>)))

(* --------------------------- chord catalog ---------------------------- *)

load_chord_database ==
    (  <<"C">> :> [notes |-> <<<<"C">>, <<"E">>, <<"G">>>>,
              positions |-> <<<<"x", "3", "2", "0", "1", "0">>, <<"x", "3", "5", "5", "5", "3">>>>] @@
       <<"G">> :> [notes |-> <<<<"G">>, <<"B">>, <<"D">>>>,
              positions |-> <<<<"3", "2", "0", "0", "0", "3">>, <<"3", "5", "5", "4", "3", "3">>>>] @@
       <<"D">> :> [notes |-> <<<<"D">>, <<"F", "#">>, <<"A">>>>,
              positions |-> <<<<"x", "x", "0", "2", "3", "2">>, <<"x", "5", "4", "2", "3", "2">>>>] @@
       <<"A">> :> [notes |-> <<<<"A">>, <<"C", "#">>, <<"E">>>>,
              positions |-> <<<<"x", "0", "2", "2", "2", "0">>, <<"x", "0", "2", "2", "2", "5">>>>] @@
       <<"E">> :> [notes |-> <<<<"E">>, <<"G", "#">>, <<"B">>>>,
              positions |-> <<<<"0", "2", "2", "1", "0", "0">>, <<"0", "2", "2", "1", "0", "4">>>>] @@
       <<"F">> :> [notes |-> <<<<"F">>, <<"A">>, <<"C">>>>,
              positions |-> <<<<"1", "3", "3", "2", "1", "1">>, <<"1", "3", "3", "1", "1", "1">>>>] @@
       <<"A", "m">> :> [notes |-> <<<<"A">>, <<"C">>, <<"E">>>>,
              positions |-> <<<<"x", "0", "2", "2", "1", "0">>, <<"x", "0", "2", "2", "1", "3">>>>] @@
       <<"E", "m">> :> [notes |-> <<<<"E">>, <<"G">>, <<"B">>>>,
              positions |-> <<<<"0", "2", "2", "0", "0", "0">>, <<"0", "2", "2", "0", "0", "3">>>>] @@
       <<"D", "m">> :> [notes |-> <<<<"D">>, <<"F">>, <<"A">>>>,
              positions |-> <<<<"x", "x", "0", "2", "3", "1">>, <<"x", "5", "4", "2", "3", "1">>>>] )

analyze_chord(db, chord_name) ==
    IF chord_name \in DOMAIN db THEN db[chord_name] ELSE PyNone

get_chord_positions(db, chord_name) ==
    LET chord_info == analyze_chord(db, chord_name)
    IN  IF chord_info # PyNone THEN chord_info.positions ELSE <<>>

get_chord_notes(db, chord_name) ==
    LET chord_info == analyze_chord(db, chord_name)
    IN  IF chord_info # PyNone THEN chord_info.notes ELSE <<>>

\* the textual voicing of the catalog read as fret values: x or X is the mute
\* marker, a digit is that fret
DecodeVoicing(position) ==
    [i \in 1..Len(position) |->
        IF position[i] \in {"x", "X"} THEN PyStr(<<"X">>)
        ELSE PyInt(DigitValue(position[i]))]

(* ------------------------------ inputs -------------------------------- *)

\* characters of the free texts: a pitch-class letter, the sharp sign, a
\* letter that names no pitch-class, and digits
TextChars == {"C", "#", "H", "4", "1", "0"}

Texts == UNION {[1..n -> TextChars] : n \in 0..MaxTextLen}

\* the well-formed notes: a name of NOTE_ORDER followed by the octave
ValidNotes == {name \o str(octave) : name \in PitchClasses, octave \in 0..MaxOctave}

NoteTexts == Texts \cup ValidNotes

MuteMarker == PyStr(<<"X">>)

\* a fret value handed to a single string: in range, just out of range, the
\* mute marker, and characters of a textual voicing
FretInputs ==
    {PyInt(f) : f \in -1..(MAX_FRET + 1)}
        \cup {MuteMarker, PyStr(<<"x">>), PyStr(<<"3">>)}

\* a Voicing: six values, each an integer fret in 0..MAX_FRET or the mute marker
IsVoicing(v) ==
    /\ Len(v) = Len(STRINGS)
    /\ \A i \in 1..Len(v) :
          \/ v[i] = MuteMarker
          \/ v[i].tag = "int" /\ v[i].n \in 0..MAX_FRET

VoicingFrets == {PyInt(f) : f \in (0..MaxVoicingFret) \cup {MAX_FRET}} \cup {MuteMarker}

CatalogPositions ==
    UNION {Range(load_chord_database[c].positions) : c \in DOMAIN load_chord_database}

MutedText == <<"x", "x", "x", "x", "x", "x">>

\* the voicings handed to the voicing helpers: generated Voicings, the catalog's
\* positions read as Voicings, and textual voicings passed as they are
VoicingInputs ==
    [1..Len(STRINGS) -> VoicingFrets]
        \cup {DecodeVoicing(p) : p \in CatalogPositions}
        \cup {StrIter(p) : p \in CatalogPositions \cup {MutedText}}

TargetInputs == {T \in SUBSET PitchClasses : Cardinality(T) <= MaxTargetSize}

ChordNameInputs == DOMAIN load_chord_database \cup {<<"H">>}

(* --------------------------- state machine ---------------------------- *)

\* the state after GuitarChordAnalyzer(): the catalog is loaded and no call
\* is in progress.  A call computes its result in one step (the helpers are
\* synchronous and pure); Return hands control back to the caller.
Init ==
    /\ op = "idle"
    /\ args = <<>>
    /\ result = PyNone
    /\ chord_database = load_chord_database

Call_parse_note ==
    /\ op = "idle"
    /\ \E note \in NoteTexts :
        /\ op' = "parse_note"
        /\ args' = [note |-> note]
        /\ result' = parse_note(note)
        /\ UNCHANGED chord_database

Call_note_to_semitone ==
    /\ op = "idle"
    /\ \E note \in NoteTexts :
        /\ op' = "note_to_semitone"
        /\ args' = [note |-> note]
        /\ result' = note_to_semitone(note)
        /\ UNCHANGED chord_database

Call_semitone_to_note ==
    /\ op = "idle"
    /\ \E semitone \in 0..MaxSemitone :
        /\ op' = "semitone_to_note"
        /\ args' = [semitone |-> semitone]
        /\ result' = PyStr(semitone_to_note(semitone))
        /\ UNCHANGED chord_database

Call_get_note_from_string_fret ==
    /\ op = "idle"
    /\ \E base_note \in Range(STRINGS), fret \in FretInputs :
        /\ op' = "get_note_from_string_fret"
        /\ args' = [base_note |-> base_note, fret |-> fret]
        /\ result' = get_note_from_string_fret(base_note, fret)
        /\ UNCHANGED chord_database

Call_get_chord_notes_from_voicing ==
    /\ op = "idle"
    /\ \E voicing \in VoicingInputs :
        /\ op' = "get_chord_notes_from_voicing"
        /\ args' = [voicing |-> voicing]
        /\ result' = get_chord_notes_from_voicing(voicing)
        /\ UNCHANGED chord_database

Call_determine_root_note ==
    /\ op = "idle"
    /\ \E voicing \in VoicingInputs :
        /\ op' = "determine_root_note"
        /\ args' = [voicing |-> voicing]
        /\ result' = determine_root_note(voicing)
        /\ UNCHANGED chord_database

Call_get_fret_positions ==
    /\ op = "idle"
    /\ \E string_note \in ValidNotes, target_notes \in TargetInputs :
        /\ op' = "get_fret_positions"
        /\ args' = [string_note |-> string_note, target_notes |-> target_notes]
        /\ result' = get_fret_positions(string_note, target_notes)
        /\ UNCHANGED chord_database

Call_analyze_chord ==
    /\ op = "idle"
    /\ \E chord_name \in ChordNameInputs :
        /\ op' = "analyze_chord"
        /\ args' = [chord_name |-> chord_name]
        /\ result' = analyze_chord(chord_database, chord_name)
        /\ UNCHANGED chord_database

Call_get_chord_positions ==
    /\ op = "idle"
    /\ \E chord_name \in ChordNameInputs :
        /\ op' = "get_chord_positions"
        /\ args' = [chord_name |-> chord_name]
        /\ result' = PyList(get_chord_positions(chord_database, chord_name))
        /\ UNCHANGED chord_database

Call_get_chord_notes ==
    /\ op = "idle"
    /\ \E chord_name \in ChordNameInputs :
        /\ op' = "get_chord_notes"
        /\ args' = [chord_name |-> chord_name]
        /\ result' = PyList(get_chord_notes(chord_database, chord_name))
        /\ UNCHANGED chord_database

Return ==
    /\ op # "idle"
    /\ op' = "idle"
    /\ args' = <<>>
    /\ result' = PyNone
    /\ UNCHANGED chord_database

Next ==
    \/ Call_parse_note
    \/ Call_note_to_semitone
    \/ Call_semitone_to_note
    \/ Call_get_note_from_string_fret
    \/ Call_get_chord_notes_from_voicing
    \/ Call_determine_root_note
    \/ Call_get_fret_positions
    \/ Call_analyze_chord
    \/ Call_get_chord_positions
    \/ Call_get_chord_notes
    \/ Return

Spec == Init /\ [][Next]_vars

(* ------------------------ reference notions --------------------------- *)

\* the elements of the sequence `order` that are in S, in the order of `order`
FilterSeq(order, S) ==
    LET F[i \in 0..Len(order)] ==
            IF i = 0 THEN <<>>
            ELSE IF order[i] \in S THEN Append(F[i - 1], order[i]) ELSE F[i - 1]
    IN  F[Len(order)]

\* the pitch-class names as Python's < on str orders them
AlphabeticalOrder ==
    << <<"A">>, <<"A", "#">>, <<"B">>, <<"C">>, <<"C", "#">>, <<"D">>,
       <<"D", "#">>, <<"E">>, <<"F">>, <<"F", "#">>, <<"G">>, <<"G", "#">> >>

\* semitone index of a well-formed note: pitch-class index + 12 * octave
SemitoneOf(name, octave) == IndexOf(name) + 12 * octave

\* pitch-class sounding `fret` semitones above absolute semitone `base`
PitchClassAbove(base, fret) == NOTE_ORDER[((base + fret) % 12) + 1]

\* open-string semitones of the standard tuning E2 A2 D3 G3 B3 E4
OpenSemitone(i) ==
    CASE i = 1 -> SemitoneOf(<<"E">>, 2)
      [] i = 2 -> SemitoneOf(<<"A">>, 2)
      [] i = 3 -> SemitoneOf(<<"D">>, 3)
      [] i = 4 -> SemitoneOf(<<"G">>, 3)
      [] i = 5 -> SemitoneOf(<<"B">>, 3)
      [] i = 6 -> SemitoneOf(<<"E">>, 4)

\* the strings of a Voicing that sound, and those that are open
SoundingStrings(v) == {i \in 1..Len(v) : v[i] # MuteMarker}
OpenStrings(v) == {i \in 1..Len(v) : v[i] = PyInt(0)}
Lowest(S) == CHOOSE i \in S : \A j \in S : i <= j

\* the pitch-classes a Voicing sounds
SoundingSet(v) == {PitchClassAbove(OpenSemitone(i), v[i].n) : i \in SoundingStrings(v)}

\* the root by the tie-break policy: lowest open string, else lowest sounding
\* string, else None
PolicyRoot(v) ==
    IF OpenStrings(v) # {}
    THEN PyStr(PitchClassAbove(OpenSemitone(Lowest(OpenStrings(v))), 0))
    ELSE IF SoundingStrings(v) # {}
    THEN PyStr(PitchClassAbove(OpenSemitone(Lowest(SoundingStrings(v))),
                               v[Lowest(SoundingStrings(v))].n))
    ELSE PyNone

\* the frets 0..MAX_FRET above `base` sounding a pitch-class of `target`,
\* ascending
MatchingFrets(base, target) ==
    LET F[f \in -1..MAX_FRET] ==
            IF f = -1 THEN <<>>
            ELSE IF PitchClassAbove(base, f) \in target
                 THEN Append(F[f - 1], PyInt(f)) ELSE F[f - 1]
    IN  F[MAX_FRET]

NoDigit(text) == \A i \in 1..Len(text) : ~isdigit(text[i])

\* the text before its first digit (the whole text when it has none)
NonDigitPrefix(text) ==
    CHOOSE p \in {SubSeq(text, 1, k) : k \in 0..Len(text)} :
        /\ NoDigit(p)
        /\ Len(p) = Len(text) \/ isdigit(text[Len(p) + 1])

(* ------------------------------ claims -------------------------------- *)

\* C1: for every valid Note n (a name of NOTE_ORDER followed by a
\* non-negative octave), semitone_to_note(note_to_semitone(n)) is exactly n.
C1_NoteRoundTrip ==
    (op = "note_to_semitone" /\ args.note \in ValidNotes) =>
        /\ result.tag = "int"
        /\ semitone_to_note(result.n) = args.note

\* C1 happens: C#10, a note with a two-digit octave, is semitone 121
C1_Witness ==
    /\ op = "note_to_semitone"
    /\ args.note = <<"C", "#", "1", "0">>
    /\ result = PyInt(121)

\* C2: get_fret_positions returns, for every open-string note and every target
\* pitch-class set, exactly the frets 0..MAX_FRET whose sounding pitch-class is
\* in the target set, ascending, followed by the mute marker as the last element.
C2_FretPositions ==
    op = "get_fret_positions" =>
        \E name \in PitchClasses, octave \in 0..MaxOctave :
            /\ args.string_note = name \o str(octave)
            /\ result = PyList(Append(MatchingFrets(SemitoneOf(name, octave),
                                                    args.target_notes),
                                      MuteMarker))

\* C3: determine_root_note follows the tie-break policy for every Voicing:
\* the lowest open string if any, else the lowest non-muted string, else None.
C3_RootTieBreak ==
    (op = "determine_root_note" /\ IsVoicing(args.voicing)) =>
        result = PolicyRoot(args.voicing)

\* C3 happens: the two lowest strings are fretted, the open D string is the root
C3_Witness ==
    /\ op = "determine_root_note"
    /\ args.voicing = <<PyInt(1), PyInt(2), PyInt(0), PyInt(2), MuteMarker, PyInt(12)>>
    /\ result = PyStr(<<"D">>)

\* C4 as stated: get_chord_notes_from_voicing returns the pitch-classes of the
\* non-muted strings, duplicates collapsed, in ascending pitch-class index
\* order (the order of NOTE_ORDER).
C4_NoteOrderIndex ==
    (op = "get_chord_notes_from_voicing" /\ IsVoicing(args.voicing)) =>
        result = PyList(FilterSeq(NOTE_ORDER, SoundingSet(args.voicing)))

\* C4 as amended: get_chord_notes_from_voicing returns the pitch-classes of the
\* non-muted strings, duplicates collapsed, in ascending order of their names
\* as text (A, A#, B, C, C#, D, D#, E, F, F#, G, G#).
C4_NoteOrderAlphabetical ==
    (op = "get_chord_notes_from_voicing" /\ IsVoicing(args.voicing)) =>
        result = PyList(FilterSeq(AlphabeticalOrder, SoundingSet(args.voicing)))

\* C4 happens: the six open strings sound E A D G B E, returned as A B D E G
C4_Witness ==
    /\ op = "get_chord_notes_from_voicing"
    /\ args.voicing = [i \in 1..6 |-> PyInt(0)]
    /\ result = PyList(<< <<"A">>, <<"B">>, <<"D">>, <<"E">>, <<"G">> >>)

\* C5: resolving a string position fails whenever the fret value is negative
\* or exceeds MAX_FRET; resolving fret 13 yields an error and no note.
C5_FretOutOfRange ==
    (/\ op = "get_note_from_string_fret"
     /\ args.fret.tag = "int"
     /\ (args.fret.n < 0 \/ args.fret.n > MAX_FRET)) =>
        IsRaise(result)

\* C6 as stated: parse_note fails on every text that has no digit and on every
\* text whose non-digit prefix is not one of the 12 pitch-class spellings.
C6_ParseNoteRejects ==
    (/\ op = "parse_note"
     /\ (NoDigit(args.note) \/ NonDigitPrefix(args.note) \notin PitchClasses)) =>
        IsRaise(result)

\* C6 as amended: parse_note fails on every text that has no digit;
\* note_to_semitone fails on every text that has no digit or whose non-digit
\* prefix is not one of the 12 pitch-class spellings, and returns no semitone.
C6_InvalidNoteRejected ==
    /\ (op = "parse_note" /\ NoDigit(args.note)) => IsRaise(result)
    /\ (/\ op = "note_to_semitone"
        /\ (NoDigit(args.note) \/ NonDigitPrefix(args.note) \notin PitchClasses)) =>
           IsRaise(result)

\* C6 happens: H4 has an octave but no recognized pitch-class, and is refused
C6_Witness ==
    /\ op = "note_to_semitone"
    /\ args.note = <<"H", "4">>
    /\ IsRaise(result)

\* C7: for the muted-only voicing "xxxxxx", get_chord_notes_from_voicing
\* returns the empty collection and determine_root_note returns None, without
\* raising an error.
C7_MutedOnly ==
    (/\ op \in {"get_chord_notes_from_voicing", "determine_root_note"}
     /\ args.voicing = StrIter(MutedText)) =>
        /\ op = "get_chord_notes_from_voicing" => result = PyList(<<>>)
        /\ op = "determine_root_note" => result = PyNone

\* C8: for every non-negative semitone s, note_to_semitone(semitone_to_note(s))
\* is exactly s, also when the octave has more than one digit (s >= 120).
C8_SemitoneRoundTrip ==
    op = "semitone_to_note" =>
        /\ result.tag = "str"
        /\ note_to_semitone(result.s) = PyInt(args.semitone)

\* C8 happens: semitone 125 is F10, a note with a two-digit octave
C8_Witness ==
    /\ op = "semitone_to_note"
    /\ args.semitone = 125
    /\ result = PyStr(<<"F", "1", "0">>)

\* C9: every chord of the catalog has a non-empty list of voicings, and every
\* listed voicing, with x read as muted, sounds exactly the chord's 'notes'.
C9_CatalogRealized ==
    /\ (op = "get_chord_positions" /\ args.chord_name \in DOMAIN chord_database) =>
           result.l # <<>>
    /\ op = "get_chord_notes_from_voicing" =>
           \A c \in DOMAIN chord_database :
               \A p \in Range(chord_database[c].positions) :
                   args.voicing = DecodeVoicing(p) =>
                       /\ result.tag = "list"
                       /\ Range(result.l) = Range(chord_database[c].notes)

\* C10: for every Voicing, determine_root_note is None exactly when
\* get_chord_notes_from_voicing is empty, and otherwise the root is one of the
\* notes get_chord_notes_from_voicing returns.
C10_RootAmongNotes ==
    (op = "determine_root_note" /\ IsVoicing(args.voicing)) =>
        LET notes == get_chord_notes_from_voicing(args.voicing)
        IN  /\ notes.tag = "list"
            /\ (result = PyNone) <=> (notes.l = <<>>)
            /\ result # PyNone => (result.tag = "str" /\ result.s \in Range(notes.l))

\* C10 happens: only the A and D strings sound, the root A# is among the notes
C10_Witness ==
    /\ op = "determine_root_note"
    /\ args.voicing = <<MuteMarker, PyInt(1), PyInt(2), MuteMarker, MuteMarker, MuteMarker>>
    /\ result = PyStr(<<"A", "#">>)

====
